---- MODULE Spec2Model ----
(***************************************************************************)
(* A model of notoma's Notion -> Markdown conversion core:                 *)
(*   - core.py       block2md / page2md / page_front_matter                *)
(*   - page.py       __title_to_slug / front_matter /                      *)
(*                   __sanitize_front_matter / page_url_substitutions /    *)
(*                   build_page_url                                        *)
(*   - templates.py  __get_linked_page / __linked_page_url /               *)
(*                   __render_block / __preprocess_notion_links            *)
(*   - config.py     Config                                                *)
(* Python strings that are only concatenated are TLA+ strings; strings     *)
(* that are inspected character by character (titles, slugs) are           *)
(* sequences of one-character strings.                                     *)
(***************************************************************************)
EXTENDS Integers, Sequences, FiniteSets, TLC

VARIABLES
    \* ---- page2md (core.py): one entry per page being compiled
    seen,        \* seen[p]: the children of page p iterated so far
    counter,     \* counter[p]: page2md's local `counter`
    blocks,      \* blocks[p]: page2md's local list `blocks`
    md,          \* md[p]: what page2md returned, or NotReturned
    rb,          \* the last call of the filter __render_block, or NotReturned
    nli,         \* the last call of the filter __numbered_list_index
    \* ---- title slugs (page.py)
    title,       \* a page title, as a sequence of characters
    slug,        \* __title_to_slug(title), or NotReturned
    reslug,      \* __title_to_slug(slug), or NotReturned
    \* ---- front matter, permalinks and links (page.py, templates.py)
    page,        \* the page being converted, as held by the client's store
    fetched,     \* the page as it was fetched, before any call
    config,      \* Config.__config
    pattern,     \* the permalink pattern handed to build_page_url
    fm,          \* the last call of front_matter(page, config)
    pfm,         \* the last call of core.py's page_front_matter(page)
    san,         \* the last call of __sanitize_front_matter(items)
    url,         \* the last call of build_page_url(page, pattern, config)
    linked,      \* the last call of __preprocess_notion_links(ctx, b)
    islink       \* the last call of the test __is_notion_link(b)

compileVars == <<seen, counter, blocks, md, rb, nli>>
slugVars == <<title, slug, reslug>>
convVars ==
    <<page, fetched, config, pattern, fm, pfm, san, url, linked, islink>>
vars == <<compileVars, slugVars, convVars>>

\* The value of a result variable before the call that sets it has returned.
NotReturned == [returned |-> FALSE]

\* Nothing is slugified, and no page is fetched for conversion: the values of
\* the variables of the parts a specification leaves out.
IdleSlug == title = <<>> /\ slug = NotReturned /\ reslug = NotReturned
IdleConv ==
    /\ page = NotReturned /\ fetched = NotReturned
    /\ config = NotReturned /\ pattern = NotReturned
    /\ fm = NotReturned /\ pfm = NotReturned /\ san = NotReturned
    /\ url = NotReturned /\ linked = NotReturned /\ islink = NotReturned

(***************************************************************************)
(* Bounds of the model.                                                    *)
(***************************************************************************)
\* The longest page (number of child blocks) that is compiled.
MaxBlocks == 4
\* The longest title drawn from Alphabet.
MaxTitleLen == 3

\* All sequences over S of length at most n.
SeqsUpTo(S, n) == UNION {[1..k -> S] : k \in 0..n}

(***************************************************************************)
(* core.py: blocks                                                         *)
(***************************************************************************)
\* The Notion block classes block2md tests for, in the order of its
\* isinstance chain, as the snake-cased class names.
KnownBlockTypes ==
    {"text", "header", "sub_header", "sub_sub_header", "quote",
     "bulleted_list", "numbered_list", "code", "callout", "divider"}

\* A block class block2md has no branch for.
UnknownBlockTypes == {"embed"}

BlockTypes == KnownBlockTypes \cup UnknownBlockTypes

\* The i-th child of a page: a block of class t.
Block(t, i) ==
    [type |-> t, id |-> i, title |-> "t" \o ToString(i),
     language |-> "python", icon |-> "!"]

\* The code fence of block2md: three grave accents, a character a TLA+ string
\* cannot hold, written here as three apostrophes.
Fence == "'''"

\* The if/elif chain of block2md (core.py): one branch per block class, and
\* the final else for every other class.
Block2mdChain(block, c) ==
    CASE block.type = "text"           -> block.title
      [] block.type = "header"         -> "# " \o block.title
      [] block.type = "sub_header"     -> "## " \o block.title
      [] block.type = "sub_sub_header" -> "### " \o block.title
      [] block.type = "quote"          -> "> " \o block.title
      [] block.type = "bulleted_list"  -> "- " \o block.title
      [] block.type = "numbered_list"  -> ToString(c) \o ". " \o block.title
      [] block.type = "code"           ->
            "\n" \o Fence \o block.language \o "\n" \o block.title
                 \o "\n" \o Fence \o "\n"
      [] block.type = "callout"        ->
            "> " \o block.icon \o " " \o block.title
      [] block.type = "divider"        -> "\n"
      [] OTHER                         -> ""

\* block2md with its final else returning the block's title, as the template
\* filter __render_block does.
block2md_ElseTitle(block, c) ==
    IF block.type \in KnownBlockTypes THEN Block2mdChain(block, c)
    ELSE block.title

\* block2md(block, counter) of core.py.
block2md(block, c) == Block2mdChain(block, c)

\* __render_block(ctx, block) of templates.py, the filter the templates apply
\* to a block they have no template for: it prints a diagnostic when
\* ctx["debug"] is set and returns str(block.title), whatever the class.
render_block(debug, block) ==
    [printed |-> IF debug THEN <<"Unsupported block type: " \o block.type>>
                 ELSE <<>>,
     value |-> block.title]

\* "\n".join(lines)
RECURSIVE JoinLines(_)
JoinLines(lines) ==
    IF lines = <<>> THEN ""
    ELSE IF Len(lines) = 1 THEN lines[1]
    ELSE lines[1] \o "\n" \o JoinLines(Tail(lines))


(***************************************************************************)
(* Property values of a page (notion-py's get_all_properties): a mapping   *)
(* from property name to a tagged Python value.                            *)
(***************************************************************************)
StrV(chars) == [t |-> "str", v |-> chars]
BoolV(b) == [t |-> "bool", v |-> b]
ListV(items) == [t |-> "list", v |-> items]
DateV(y, m, d) == [t |-> "datetime", v |-> <<y, m, d>>]
NotionDateV(start, end) == [t |-> "NotionDate", start |-> start, end |-> end]
NoneV == [t |-> "None"]

\* The empty Python string.
EmptyStr == StrV(<<>>)
\* v == "" of Python: only a str equals the empty string.
IsEmptyStr(v) == v.t = "str" /\ v.v = <<>>

\* page_front_matter(page) of core.py: the properties that are not internal,
\* between the two "---" lines. yaml.dump(renderables) is kept as the mapping
\* it serializes.
Internals == {"published", "title"}

page_front_matter(props) ==
    LET renderables == [k \in DOMAIN props \ Internals |-> props[k]]
    IN  <<"\n---\n", renderables, "\n---\n\n">>

(***************************************************************************)
(* core.py: page2md, one step per iteration of its loop.  Each call of     *)
(* page2md has its own locals `blocks` and `counter`; Pages are the calls  *)
(* that may be in progress, run one after the other or interleaved.        *)
(***************************************************************************)
Pages == {1, 2}

\* The block classes drawn for the children when two pages are compiled.
InterleavedTypes == {"numbered_list", "text", "embed"}

\* get_all_properties() of the pages being compiled.
PageProperties(p) ==
    [title |-> StrV(<<"P", ToString(p)>>), published |-> BoolV(TRUE),
     layout |-> StrV(<<"p", "o", "s", "t">>)]

\* Lines 76-79: the counter after a block.
NextCounter_NoReset(block, c) == c + 1

NextCounter(block, c) ==
    IF block.type = "numbered_list" THEN c + 1 ELSE 1

\* The locals of a call of page2md before its loop (lines 68-71).
InitCompile ==
    /\ seen = [p \in Pages |-> <<>>]
    /\ counter = [p \in Pages |-> 1]
    /\ blocks = [p \in Pages |-> <<>>]
    /\ md = [p \in Pages |-> NotReturned]

\* One iteration of the loop of page2md(p) whose counter is global to the
\* module instead of local to the call.
RenderBlock_SharedCounter(p, t) ==
    /\ md[p] = NotReturned
    /\ Len(seen[p]) < MaxBlocks
    /\ LET block == Block(t, Len(seen[p]) + 1)
       IN  /\ seen' = [seen EXCEPT ![p] = Append(@, block)]
           /\ blocks' = [blocks EXCEPT
                            ![p] = Append(@, block2md(block, counter[p]))]
           /\ counter' = [q \in Pages |-> NextCounter(block, counter[p])]
    /\ UNCHANGED <<md, rb, nli, slugVars, convVars>>

\* One iteration of the loop of page2md(p), lines 73-79: the next child is a
\* block of class t.
RenderBlock(p, t) ==
    /\ md[p] = NotReturned
    /\ Len(seen[p]) < MaxBlocks
    /\ LET block == Block(t, Len(seen[p]) + 1)
       IN  /\ seen' = [seen EXCEPT ![p] = Append(@, block)]
           /\ blocks' = [blocks EXCEPT
                            ![p] = Append(@, block2md(block, counter[p]))]
           /\ counter' = [counter EXCEPT ![p] = NextCounter(block, @)]
    /\ UNCHANGED <<md, rb, nli, slugVars, convVars>>

\* The end of the loop and the return of page2md(p), line 81.
Return(p) ==
    /\ md[p] = NotReturned
    /\ md' = [md EXCEPT ![p] =
                [returned |-> TRUE,
                 front |-> page_front_matter(PageProperties(p)),
                 body |-> JoinLines(blocks[p])]]
    /\ UNCHANGED <<seen, counter, blocks, rb, nli, slugVars, convVars>>

\* The template filter __render_block applied to the child of page 1 that was
\* iterated last, with the template context's debug flag.
RenderBlockFilter(debug) ==
    /\ md[1] = NotReturned
    /\ seen[1] # <<>>
    /\ LET block == seen[1][Len(seen[1])]
       IN  rb' = [returned |-> TRUE, block |-> block, debug |-> debug,
                  out |-> render_block(debug, block)]
    /\ UNCHANGED <<seen, counter, blocks, md, nli, slugVars, convVars>>

\* One page, its children of any class.
InitPage ==
    InitCompile /\ rb = NotReturned /\ nli = NotReturned /\ IdleSlug /\ IdleConv
NextPage == \/ \E t \in BlockTypes : RenderBlock(1, t)
            \/ \E debug \in BOOLEAN : RenderBlockFilter(debug)
            \/ Return(1)
SpecPage == InitPage /\ [][NextPage]_vars

\* Two pages, compiled one after the other or interleaved.
NextPages == \/ \E p \in Pages, t \in InterleavedTypes : RenderBlock(p, t)
             \/ \E p \in Pages : Return(p)
SpecPages == InitPage /\ [][NextPages]_vars


(***************************************************************************)
(* Claims about page2md and block2md.                                      *)
(***************************************************************************)
\* The number of numbered-list blocks that immediately and consecutively
\* precede the i-th block of s.
RECURSIVE RunBefore(_, _)
RunBefore(s, i) ==
    IF i <= 1 THEN 0
    ELSE IF s[i - 1].type = "numbered_list" THEN 1 + RunBefore(s, i - 1)
    ELSE 0

\* C1: every numbered-list block of the page is emitted with the number
\* 1 + (the count of numbered-list blocks immediately and consecutively
\* before it), and the counter held for the next block is 1 + the length of
\* the run of numbered-list blocks the page ends with so far: it starts at 1,
\* grows by one after a numbered-list block and is back at 1 after any other.
C1_NumberIsOnePlusRun ==
    /\ \A i \in 1..Len(seen[1]) :
          seen[1][i].type = "numbered_list" =>
             blocks[1][i] = ToString(1 + RunBefore(seen[1], i)) \o ". "
                               \o seen[1][i].title
    /\ counter[1] = 1 + RunBefore(seen[1], Len(seen[1]) + 1)

\* C1's case: [numbered, numbered, paragraph, numbered] is numbered 1, 2, 1.
C1_Witness ==
    /\ Len(seen[1]) = 4
    /\ [i \in 1..4 |-> seen[1][i].type]
          = <<"numbered_list", "numbered_list", "text", "numbered_list">>
    /\ blocks[1] = <<"1. t1", "2. t2", "t3", "1. t4">>

\* The fragment a block that block2md knows contributes at place i of s.
KnownFragment(s, i) == Block2mdChain(s[i], 1 + RunBefore(s, i))

RECURSIVE Page2mdAlone(_, _, _)
Page2mdAlone(children, i, c) ==
    IF i > Len(children) THEN <<>>
    ELSE <<block2md(children[i], c)>>
            \o Page2mdAlone(children, i + 1,
                            IF children[i].type = "numbered_list"
                            THEN c + 1 ELSE 1)

\* C9: whatever the order in which the iterations of two calls of page2md
\* are taken, each call has rendered its children as it renders them when
\* it runs alone.
C9_CounterPrivateToPage ==
    \A p \in Pages : blocks[p] = Page2mdAlone(seen[p], 1, 1)

\* C9's case: page 1 is in a run of numbered-list blocks, at number 3,
\* page 2 has rendered its first numbered-list block as number 1 and page 1
\* has gone on with number 3.
C9_Witness ==
    /\ Len(seen[1]) = 3 /\ blocks[1] = <<"1. t1", "2. t2", "3. t3">>
    /\ Len(seen[2]) = 2 /\ blocks[2] = <<"t1", "1. t2">>


(***************************************************************************)
(* page.py: __title_to_slug.  A string is a sequence of characters; a      *)
(* character is a one-character string, or the code point's name for the   *)
(* two characters outside ASCII that the model draws.                      *)
(***************************************************************************)
UpperLetters ==
    <<"A", "B", "C", "D", "E", "F", "G", "H", "I", "J", "K", "L", "M",
      "N", "O", "P", "Q", "R", "S", "T", "U", "V", "W", "X", "Y", "Z">>
LowerLetters ==
    <<"a", "b", "c", "d", "e", "f", "g", "h", "i", "j", "k", "l", "m",
      "n", "o", "p", "q", "r", "s", "t", "u", "v", "w", "x", "y", "z">>
Digits == {"0", "1", "2", "3", "4", "5", "6", "7", "8", "9"}
Range(f) == {f[i] : i \in DOMAIN f}

\* LATIN CAPITAL LETTER I WITH DOT ABOVE, a letter (str.isalnum() is true),
\* and COMBINING DOT ABOVE, a mark (str.isalnum() is false).
CapitalIDot == "U+0130"
CombiningDot == "U+0307"

AsciiChars ==
    Range(UpperLetters) \cup Range(LowerLetters) \cup Digits
       \cup {" ", "\t", "\n", "-", "_", ",", "!", ".", "/", ":"}

\* What the pattern \s matches.
IsSpace(c) == c \in {" ", "\t", "\n"}

\* What the pattern \w matches in a str pattern: the alphanumeric characters
\* and the underscore.
IsWord(c) ==
    c \in Range(UpperLetters) \cup Range(LowerLetters) \cup Digits
             \cup {"_", CapitalIDot}

\* str.lower() of one character: a string, of two characters for U+0130.
LowerChar(c) ==
    IF c \in Range(UpperLetters)
    THEN <<LowerLetters[CHOOSE i \in DOMAIN UpperLetters : UpperLetters[i] = c]>>
    ELSE IF c = CapitalIDot THEN <<"i", CombiningDot>>
    ELSE <<c>>

\* s.lower()
RECURSIVE Lower(_)
Lower(s) == IF s = <<>> THEN <<>> ELSE LowerChar(Head(s)) \o Lower(Tail(s))

\* s without its leading whitespace.
RECURSIVE DropSpaces(_)
DropSpaces(s) ==
    IF s # <<>> /\ IsSpace(Head(s)) THEN DropSpaces(Tail(s)) ELSE s

\* re.sub(r"\s+", "-", s): every maximal run of whitespace becomes one hyphen.
RECURSIVE SubSpaces(_)
SubSpaces(s) ==
    IF s = <<>> THEN <<>>
    ELSE IF IsSpace(Head(s)) THEN <<"-">> \o SubSpaces(DropSpaces(s))
    ELSE <<Head(s)>> \o SubSpaces(Tail(s))

\* re.sub(r"[^\w\-]", "", s): only word characters and hyphens are kept.
RECURSIVE SubNonWord(_)
SubNonWord(s) ==
    IF s = <<>> THEN <<>>
    ELSE IF IsWord(Head(s)) \/ Head(s) = "-"
         THEN <<Head(s)>> \o SubNonWord(Tail(s))
         ELSE SubNonWord(Tail(s))

\* __title_to_slug without the call of lower().
title_to_slug_NoLower(t) == SubNonWord(SubSpaces(t))

\* __title_to_slug(title)
title_to_slug(t) == Lower(SubNonWord(SubSpaces(t)))

\* A character sequence as the TLA+ string it spells.
RECURSIVE Chars2Str(_)
Chars2Str(s) == IF s = <<>> THEN "" ELSE Head(s) \o Chars2Str(Tail(s))

\* page_path(page, dest_dir): the file name in dest_dir.
page_path(t, dest_dir) == dest_dir \o "/" \o Chars2Str(title_to_slug(t)) \o ".md"

\* The characters the bounded titles are drawn from: a lowercase and an
\* uppercase letter, a digit, whitespace, and punctuation the slug keeps or
\* drops, and a letter outside ASCII.
Alphabet == {"a", "B", "7", " ", "-", "_", ",", CapitalIDot}

HelloWorld ==
    <<"H", "e", "l", "l", "o", ",", " ", "W", "o", "r", "l", "d", "!">>
MyPost == <<"M", "y", " ", "P", "o", "s", "t">>

Titles == SeqsUpTo(Alphabet, MaxTitleLen) \cup {HelloWorld, MyPost}

InitSlug ==
    /\ InitCompile
    /\ rb = NotReturned /\ nli = NotReturned
    /\ IdleConv
    /\ title \in Titles
    /\ slug = NotReturned
    /\ reslug = NotReturned

\* slug = __title_to_slug(title)
Slugify ==
    /\ slug = NotReturned
    /\ slug' = [returned |-> TRUE, v |-> title_to_slug(title)]
    /\ UNCHANGED <<compileVars, title, reslug, convVars>>

\* __title_to_slug applied to its own result.
Reslugify ==
    /\ slug.returned
    /\ reslug = NotReturned
    /\ reslug' = [returned |-> TRUE, v |-> title_to_slug(slug.v)]
    /\ UNCHANGED <<compileVars, title, slug, convVars>>

NextSlug == Slugify \/ Reslugify
SpecSlug == InitSlug /\ [][NextSlug]_vars

LowerAlnum == Range(LowerLetters) \cup Digits

Ok(v) == [ok |-> TRUE, v |-> v]
Raise(e) == [ok |-> FALSE, err |-> e]

IntV(n) == [t |-> "int", v |-> n]

\* d[k] = v on a dict d.
Put(d, k, v) == [x \in DOMAIN d \cup {k} |-> IF x = k THEN v ELSE d[x]]

\* str(b) of a bool.
PyStrBool(b) ==
    IF b THEN <<"T", "r", "u", "e">> ELSE <<"F", "a", "l", "s", "e">>

\* str(n) of an int n >= 0.
RECURSIVE IntChars(_)
IntChars(n) ==
    IF n < 10 THEN <<ToString(n)>>
    ELSE IntChars(n \div 10) \o <<ToString(n % 10)>>

\* str(v) of the values string.Template.substitute meets in the model.
PyStr(v) ==
    CASE v.t = "str"  -> v.v
      [] v.t = "int"  -> IntChars(v.v)
      [] v.t = "None" -> <<"N", "o", "n", "e">>

\* sep.join(items)
RECURSIVE JoinWith(_, _)
JoinWith(sep, items) ==
    IF items = <<>> THEN <<>>
    ELSE IF Len(items) = 1 THEN items[1]
    ELSE items[1] \o sep \o JoinWith(sep, Tail(items))

(***************************************************************************)
(* config.py: Config.  __config holds one entry per key of CONF_MAP, the   *)
(* value of its environment variable or None.                              *)
(***************************************************************************)
ConfKeys ==
    {"token_v2", "blog_url", "default_layout", "permalink_pattern", "baseurl"}

\* The attributes the class defines (its two properties).
ConfigProperties == {"token_v2", "blog_url"}

\* config.<name>: the class defines no __getattr__, so any other name raises.
ConfigGetAttr(cfg, name) ==
    IF name \in ConfigProperties THEN Ok(cfg[name])
    ELSE Raise("AttributeError")

\* config[key]: Config.__getitem__
ConfigGetItem(cfg, key) ==
    IF key \in DOMAIN cfg THEN Ok(cfg[key]) ELSE Raise("KeyError")

(***************************************************************************)
(* page.py: front_matter and __sanitize_front_matter                       *)
(***************************************************************************)
\* The civil date <<y, m, d>> of a day counted from 1970-01-01.
CivilFromDays(days) ==
    LET z == days + 719468
        era == z \div 146097
        doe == z - era * 146097
        yoe == (doe - doe \div 1460 + doe \div 36524 - doe \div 146096) \div 365
        doy == doe - (365 * yoe + yoe \div 4 - yoe \div 100)
        mp == (5 * doy + 2) \div 153
        d == doy - (153 * mp + 2) \div 5 + 1
        m == IF mp < 10 THEN mp + 3 ELSE mp - 9
        y == yoe + era * 400 + (IF m <= 2 THEN 1 ELSE 0)
    IN  <<y, m, d>>

\* datetime.utcfromtimestamp(int(last_edited_time) / 1000).  The epoch
\* milliseconds do not fit the model checker's integers: a timestamp is
\* [days, ms], standing for days * 86400000 + ms.
UtcFromTimestamp(ts) ==
    [t |-> "datetime", v |-> CivilFromDays(ts.days), tod |-> ts.ms]

\* A datetime at midnight.
MidnightV(y, m, d) == [t |-> "datetime", v |-> <<y, m, d>>, tod |-> 0]

\* The body of the loop of __sanitize_front_matter, without lower().
SanitizeValue_NoLower(v) ==
    IF v.t \notin {"str", "list"}
    THEN IF v.t = "NotionDate" THEN v.start
         ELSE IF v.t = "bool" THEN StrV(PyStrBool(v.v))
         ELSE v
    ELSE v

\* The body of the loop of __sanitize_front_matter: the value left at
\* items[k] for the value v found there.
SanitizeValue(v) ==
    IF v.t \notin {"str", "list"}
    THEN IF v.t = "NotionDate" THEN v.start
         ELSE IF v.t = "bool" THEN StrV(Lower(PyStrBool(v.v)))
         ELSE v
    ELSE v

\* __sanitize_front_matter(items)
sanitize_front_matter(items) ==
    [k \in DOMAIN items |-> SanitizeValue(items[k])]

\* The dict comprehension of front_matter: {k: v ... if v != ""}
Renderables(all_props) ==
    [k \in {x \in DOMAIN all_props : ~IsEmptyStr(all_props[x])} |-> all_props[k]]

\* front_matter(page, config)
front_matter(pg, cfg) ==
    LET all_props == pg.props
        noLayout == "layout" \notin DOMAIN all_props
        default_layout == ConfigGetAttr(cfg, "default_layout")
    IN  IF noLayout /\ ~default_layout.ok THEN Raise(default_layout.err)
        ELSE
          LET p1 == IF noLayout
                    THEN Put(all_props, "layout", default_layout.v)
                    ELSE all_props
              p2 == IF "published_at" \notin DOMAIN p1
                    THEN Put(p1, "published_at",
                             UtcFromTimestamp(pg.last_edited_time))
                    ELSE p1
          IN  Ok(sanitize_front_matter(Renderables(p2)))

(***************************************************************************)
(* page.py: page_url_substitutions and build_page_url                      *)
(***************************************************************************)
\* A permalink pattern: the literal text and the ${name} placeholders of a
\* string.Template, in order.
Lit(text) == [ph |-> FALSE, s |-> text]
Ph(name) == [ph |-> TRUE, s |-> name]

\* subs["title"] = __title_to_slug(subs["title"]), lines 70-71.
SubsTitle(subs) ==
    IF "title" \notin DOMAIN subs THEN Ok(subs)
    ELSE IF subs["title"].t = "str"
         THEN Ok(Put(subs, "title", StrV(title_to_slug(subs["title"].v))))
         ELSE Raise("TypeError")

\* Lines 73-76: "/".join(subs["categories"]) joins the items of a list and
\* the characters of a str, and raises for a value that is not iterable.
SubsCategories(subs) ==
    IF "categories" \notin DOMAIN subs
    THEN Ok(Put(subs, "categories", EmptyStr))
    ELSE LET c == subs["categories"]
         IN  IF c.t = "list"
             THEN Ok(Put(subs, "categories", StrV(JoinWith(<<"/">>, c.v))))
             ELSE IF c.t = "str"
             THEN Ok(Put(subs, "categories",
                         StrV(JoinWith(<<"/">>,
                                       [i \in 1..Len(c.v) |-> <<c.v[i]>>]))))
             ELSE Raise("TypeError")

\* Lines 78-79: year, month, day from published_at.timetuple(); a value
\* without timetuple() raises.
SubsDate(subs) ==
    IF "published_at" \notin DOMAIN subs THEN Ok(subs)
    ELSE LET at == subs["published_at"]
         IN  IF at.t = "datetime"
             THEN Ok(Put(Put(Put(subs, "year", IntV(at.v[1])),
                                       "month", IntV(at.v[2])),
                                       "day", IntV(at.v[3])))
             ELSE Raise("AttributeError")

\* page_url_substitutions(page, config)
page_url_substitutions(pg, cfg) ==
    LET subs == front_matter(pg, cfg)
    IN  IF ~subs.ok THEN subs
        ELSE
          LET baseurl == ConfigGetItem(cfg, "baseurl")
          IN  IF ~baseurl.ok THEN baseurl
              ELSE
                LET s1 == SubsTitle(Put(subs.v, "baseurl", baseurl.v))
                IN  IF ~s1.ok THEN s1
                    ELSE LET s2 == SubsCategories(s1.v)
                         IN  IF ~s2.ok THEN s2 ELSE SubsDate(s2.v)

\* pattern.substitute(subs): KeyError for a placeholder that is no key.
RECURSIVE Substitute(_, _)
Substitute(pat, subs) ==
    IF pat = <<>> THEN Ok("")
    ELSE LET rest == Substitute(Tail(pat), subs)
             tok == Head(pat)
         IN  IF tok.ph /\ tok.s \notin DOMAIN subs THEN Raise("KeyError")
             ELSE IF ~rest.ok THEN rest
             ELSE Ok((IF tok.ph THEN Chars2Str(PyStr(subs[tok.s]))
                      ELSE tok.s) \o rest.v)

\* build_page_url(page, pattern, config)
build_page_url(pg, pat, cfg) ==
    LET subs == page_url_substitutions(pg, cfg)
    IN  IF ~subs.ok THEN subs ELSE Substitute(pat, subs.v)


(***************************************************************************)
(* The pages, configurations and patterns the calls are made with.         *)
(***************************************************************************)
Post == <<"p", "o", "s", "t">>
XIo == <<"h", "t", "t", "p", "s", ":", "/", "/", "x", ".", "i", "o">>

\* The values each property may hold: a filled and an empty text, the two
\* values of a checkbox, a date, a date range, an unset date, a multi-select,
\* a text and an unset select.
PropertyValues ==
    [title |-> {StrV(MyPost), EmptyStr},
     published |-> {BoolV(TRUE), BoolV(FALSE)},
     layout |-> {StrV(Post), EmptyStr},
     published_at |-> {MidnightV(2021, 5, 3),
                       NotionDateV(MidnightV(2021, 5, 3), MidnightV(2021, 5, 9)),
                       NoneV},
     categories |-> {ListV(<<<<"a">>, <<"b", "c">>>>), StrV(<<"a", "b">>),
                     NoneV}]

\* Every property mapping: any subset of the properties, each with one of
\* its values.
PropertyMaps ==
    UNION {[D -> UNION {PropertyValues[k] : k \in D}] : D \in SUBSET DOMAIN PropertyValues}

WellTyped(props) == \A k \in DOMAIN props : props[k] \in PropertyValues[k]

\* 2021-05-03 00:00:00 and 2020-02-29 12:00:00 UTC.
Timestamps == {[days |-> 18750, ms |-> 0], [days |-> 18321, ms |-> 43200000]}

ScenarioPattern ==
    <<Ph("baseurl"), Lit("/"), Ph("year"), Lit("/"), Ph("month"), Lit("/"),
      Ph("title")>>
CategoriesPattern ==
    <<Ph("baseurl"), Lit("/"), Ph("categories"), Lit("/"), Ph("day"),
      Lit("/"), Ph("title")>>
AuthorPattern == <<Ph("baseurl"), Lit("/"), Ph("author"), Lit("/")>>
Patterns == {ScenarioPattern, CategoriesPattern, AuthorPattern}

\* Config() with every variable of CONF_MAP set: the base URL is b and the
\* permalink pattern is the str that string.Template reads as pat.
ConfigWith(b, pat) ==
    [k \in ConfKeys |->
        CASE k = "default_layout" -> StrV(Post)
          [] k = "baseurl" -> b
          [] k = "permalink_pattern" -> StrV(pat)
          [] OTHER -> StrV(<<"x">>)]

\* Every variable of CONF_MAP is set, or all but NOTOMA_BASE_URL.
Configs == {ConfigWith(b, ScenarioPattern) : b \in {StrV(XIo), NoneV}}

InitFrontMatter ==
    /\ InitCompile /\ rb = NotReturned /\ nli = NotReturned /\ IdleSlug
    /\ \E props \in {m \in PropertyMaps : WellTyped(m)}, ts \in Timestamps :
          page = [props |-> props, last_edited_time |-> ts,
                  parent |-> "blog", chunks |-> NoneV]
    /\ fetched = page
    /\ config \in Configs
    /\ pattern \in Patterns
    /\ fm = NotReturned /\ pfm = NotReturned /\ san = NotReturned
    /\ url = NotReturned /\ linked = NotReturned /\ islink = NotReturned

\* A call of front_matter(page, config).
FrontMatter ==
    /\ page # NotReturned
    /\ fm = NotReturned
    /\ fm' = [returned |-> TRUE, out |-> front_matter(page, config)]
    /\ UNCHANGED <<compileVars, slugVars, page, fetched, config, pattern,
                   pfm, san, url, linked, islink>>

\* A call of core.py's page_front_matter(page).
PageFrontMatter ==
    /\ page # NotReturned
    /\ pfm = NotReturned
    /\ pfm' = [returned |-> TRUE, out |-> page_front_matter(page.props)]
    /\ UNCHANGED <<compileVars, slugVars, page, fetched, config, pattern,
                   fm, san, url, linked, islink>>

\* A call of __sanitize_front_matter(items) on a dict with the page's
\* properties.
Sanitize ==
    /\ page # NotReturned
    /\ san = NotReturned
    /\ san' = [returned |-> TRUE, items |-> page.props,
               out |-> sanitize_front_matter(page.props)]
    /\ UNCHANGED <<compileVars, slugVars, page, fetched, config, pattern,
                   fm, pfm, url, linked, islink>>

\* A call of build_page_url(page, pattern, config); subs is the mapping of
\* page_url_substitutions(page, config) that it substitutes into the pattern.
BuildPageUrl ==
    /\ page # NotReturned
    /\ url = NotReturned
    /\ url' = [returned |-> TRUE,
               subs |-> page_url_substitutions(page, config),
               out |-> build_page_url(page, pattern, config)]
    /\ UNCHANGED <<compileVars, slugVars, page, fetched, config, pattern,
                   fm, pfm, san, linked, islink>>

NextFrontMatter == FrontMatter \/ PageFrontMatter \/ Sanitize \/ BuildPageUrl
SpecFrontMatter == InitFrontMatter /\ [][NextFrontMatter]_vars


(***************************************************************************)
(* templates.py: __get_linked_page, __linked_page_url and                  *)
(* __preprocess_notion_links.  The raw title of a block                    *)
(* (b.get("properties.title")) is None or a list of chunks; a chunk is     *)
(* <<text>> or <<text, modifiers>>; a modifier is <<tag>> or               *)
(* <<tag, argument>>.                                                      *)
(***************************************************************************)
\* The rows CollectionRowBlock(client, page_id) finds, by id: a page of the
\* same collection, a page of another collection, and a page of the same
\* collection that has no layout property.
LinkedPages ==
    [pg_same |->
        [props |-> [title |-> StrV(MyPost), layout |-> StrV(Post),
                    published_at |-> MidnightV(2021, 5, 3)],
         last_edited_time |-> [days |-> 18750, ms |-> 0],
         parent |-> "blog", chunks |-> NoneV],
     pg_other |->
        [props |-> [title |-> StrV(<<"W", "i", "k", "i">>),
                    layout |-> StrV(Post)],
         last_edited_time |-> [days |-> 18750, ms |-> 0],
         parent |-> "wiki", chunks |-> NoneV],
     pg_nolayout |->
        [props |-> [title |-> StrV(<<"D", "r", "a", "f", "t">>)],
         last_edited_time |-> [days |-> 18321, ms |-> 43200000],
         parent |-> "blog", chunks |-> NoneV]]

PageIds == DOMAIN LinkedPages

\* __get_linked_page without the comparison of the parents.
get_linked_page_NoParentCheck(this_page, page_id) == Ok(LinkedPages[page_id])

\* __get_linked_page(this_page, page_id)
get_linked_page(this_page, page_id) ==
    LET linked_page == LinkedPages[page_id]
    IN  IF ~(linked_page.parent = this_page.parent)
        THEN Raise("ValueError")
        ELSE Ok(linked_page)

\* __linked_page_url(config, page).  string.Template(...) is never None, so
\* the branch for a missing pattern is never taken; substitute() on the
\* template of None raises.
linked_page_url(cfg, pg) ==
    LET permalink_pattern == ConfigGetItem(cfg, "permalink_pattern")
    IN  IF ~permalink_pattern.ok THEN permalink_pattern
        ELSE IF permalink_pattern.v.t # "str" THEN Raise("TypeError")
        ELSE build_page_url(pg, permalink_pattern.v.v, cfg)

\* The inner loop of __preprocess_notion_links from the j-th modifier of a
\* chunk on: the chunk as the loop leaves it, and the error raised, if any.
RECURSIVE ProcessModifiers(_, _, _, _)

\* The rest of the loop body once __linked_page_url has returned or raised.
\* modifier[0] = "a" is assigned before __linked_page_url is called, so it
\* stays when the call raises; modifier[1] and chunk[0] follow the call.
AfterLinkedPageUrl(this_page, cfg, chunk, j, linked_page, link) ==
    IF ~link.ok
    THEN [chunk |-> [chunk EXCEPT ![2][j][1] = "a"], err |-> link.err]
    ELSE ProcessModifiers(this_page, cfg,
            [chunk EXCEPT ![2][j] = <<"a", link.v>>,
                          ![1] = Chars2Str(linked_page.props["title"].v)],
            j + 1)

\* The rest of the loop body once __get_linked_page has returned or raised.
AfterGetLinkedPage(this_page, cfg, chunk, j, target) ==
    IF ~target.ok THEN [chunk |-> chunk, err |-> target.err]
    ELSE AfterLinkedPageUrl(this_page, cfg, chunk, j, target.v,
                            linked_page_url(cfg, target.v))

ProcessModifiers(this_page, cfg, chunk, j) ==
    IF j > Len(chunk[2]) THEN [chunk |-> chunk, err |-> "none"]
    ELSE IF chunk[2][j][1] # "p"
    THEN ProcessModifiers(this_page, cfg, chunk, j + 1)
    ELSE AfterGetLinkedPage(this_page, cfg, chunk, j,
                            get_linked_page(this_page, chunk[2][j][2]))

\* The outer loop from the i-th chunk on: the chunks as the loop leaves
\* them, and the error raised, if any.
RECURSIVE ProcessChunks(_, _, _, _)

\* The outer loop once the inner loop has left the i-th chunk as r.chunk.
AfterModifiers(this_page, cfg, chunks, i, r) ==
    IF r.err # "none"
    THEN [chunks |-> [chunks EXCEPT ![i] = r.chunk], err |-> r.err]
    ELSE ProcessChunks(this_page, cfg, [chunks EXCEPT ![i] = r.chunk], i + 1)

ProcessChunks(this_page, cfg, chunks, i) ==
    IF i > Len(chunks) THEN [chunks |-> chunks, err |-> "none"]
    ELSE IF Len(chunks[i]) > 1
    THEN AfterModifiers(this_page, cfg, chunks, i,
                        ProcessModifiers(this_page, cfg, chunks[i], 1))
    ELSE ProcessChunks(this_page, cfg, chunks, i + 1)

\* notion_to_markdown(chunks) of notion-py, for bold text and links.
RECURSIVE WithModifiers(_, _)
WithModifiers(text, mods) ==
    IF mods = <<>> THEN text
    ELSE LET inner == WithModifiers(text, Tail(mods))
         IN  CASE Head(mods)[1] = "b" -> "__" \o inner \o "__"
               [] Head(mods)[1] = "a" ->
                     "[" \o inner \o "](" \o Head(mods)[2] \o ")"
               [] OTHER -> inner

RECURSIVE notion_to_markdown(_)
notion_to_markdown(chunks) ==
    IF chunks = <<>> THEN ""
    ELSE (IF Len(Head(chunks)) > 1
          THEN WithModifiers(Head(chunks)[1], Head(chunks)[2])
          ELSE Head(chunks)[1]) \o notion_to_markdown(Tail(chunks))

\* What __preprocess_notion_links returns or raises once its loops have left
\* the chunks as r.chunks: notion_to_markdown(chunks), unless a loop raised.
LinksResult(r) ==
    [out |-> IF r.err = "none" THEN Ok(notion_to_markdown(r.chunks))
             ELSE Raise(r.err),
     chunks |-> ListV(r.chunks)]

\* __preprocess_notion_links(ctx, b) for ctx["page"] = pg, a block b whose
\* raw title is pg.chunks and ctx["config"] = cfg: what the call returns or
\* raises, and the raw title afterwards.  b.get("properties.title") is the
\* list held in the client's record store, not a copy of it, so the
\* assignments to modifier[0], modifier[1] and chunk[0] change the block.
preprocess_notion_links(pg, cfg) ==
    IF pg.chunks.t = "None" \/ pg.chunks.v = <<>>
    THEN [out |-> Ok(""), chunks |-> pg.chunks]
    ELSE LinksResult(ProcessChunks(pg, cfg, pg.chunks.v, 1))

\* The most chunks of a raw title, and the most calls of
\* __preprocess_notion_links on the same block.
MaxChunks == 2
MaxCalls == 2

\* The chunks a raw title is made of: plain text, bold text, a link to each
\* linked page, and text with two modifiers.
ChunkChoices ==
    {<<"x">>, <<"x", <<<<"b">>>>>>}
       \cup {<<"x", <<<<"p", id>>>>>> : id \in PageIds}
       \cup {<<"x", <<<<"b">>, <<"p", "pg_same">>>>>>,
             <<"x", <<<<"p", "pg_same">>, <<"p", "pg_other">>>>>>}

\* The page whose block is preprocessed.
ThisPageProps ==
    [title |-> StrV(<<"T", "h", "i", "s">>), published |-> BoolV(TRUE),
     layout |-> StrV(Post)]

InitLinks ==
    /\ InitCompile /\ rb = NotReturned /\ nli = NotReturned /\ IdleSlug
    /\ \E chunks \in {ListV(c) : c \in SeqsUpTo(ChunkChoices, MaxChunks)}
                        \cup {NoneV} :
          page = [props |-> ThisPageProps,
                  last_edited_time |-> [days |-> 18750, ms |-> 0],
                  parent |-> "blog", chunks |-> chunks]
    /\ fetched = page
    /\ config \in {ConfigWith(StrV(XIo), pat) :
                      pat \in {ScenarioPattern, AuthorPattern}}
    /\ pattern = ScenarioPattern
    /\ fm = NotReturned /\ pfm = NotReturned /\ san = NotReturned
    /\ url = NotReturned
    /\ linked = [returned |-> FALSE, calls |-> 0]
    /\ islink = NotReturned

\* A call of __preprocess_notion_links(ctx, b).
PreprocessLinks ==
    /\ page # NotReturned
    /\ ~linked.returned \/ linked.calls < MaxCalls
    /\ LET r == preprocess_notion_links(page, config)
       IN  /\ linked' = [returned |-> TRUE, calls |-> linked.calls + 1,
                         arg |-> page.chunks, out |-> r.out]
           /\ page' = [page EXCEPT !.chunks = r.chunks]
    /\ UNCHANGED <<compileVars, slugVars, fetched, config, pattern,
                   fm, pfm, san, url, islink>>

\* b.title of notion-py: the raw title rendered as Markdown, "" when the
\* block has no raw title.
BlockTitle(pg) ==
    IF pg.chunks.t = "None" THEN "" ELSE notion_to_markdown(pg.chunks.v)

\* The loop of __is_notion_link from the i-th chunk on: it returns at the
\* first chunk that has modifiers, with modifier[0][0] == "p" for that
\* chunk's modifiers; when no chunk has modifiers the function ends without
\* a return statement and the call yields None.
RECURSIVE FirstFormattedChunk(_, _)
FirstFormattedChunk(raw_title, i) ==
    IF i > Len(raw_title) THEN NoneV
    ELSE IF Len(raw_title[i]) > 1
    THEN BoolV(raw_title[i][2][1][1] = "p")
    ELSE FirstFormattedChunk(raw_title, i + 1)

\* __is_notion_link(b) for the block whose raw title is pg.chunks
is_notion_link(pg) ==
    IF BlockTitle(pg) = "" THEN BoolV(FALSE)
    ELSE FirstFormattedChunk(pg.chunks.v, 1)

\* A call of the test __is_notion_link(b).
IsNotionLink ==
    /\ page # NotReturned
    /\ islink = NotReturned
    /\ islink' = [returned |-> TRUE, arg |-> page.chunks,
                  out |-> is_notion_link(page)]
    /\ UNCHANGED <<compileVars, slugVars, page, fetched, config, pattern,
                   fm, pfm, san, url, linked>>

NextLinks == PreprocessLinks \/ FrontMatter \/ IsNotionLink
SpecLinks == InitLinks /\ [][NextLinks]_vars

(***************************************************************************)
(* Claims about the front matter and the permalink.                        *)
(***************************************************************************)
\* C3: whatever the page's properties, its last-modified timestamp and the
\* configuration, the mapping front_matter returns has the keys layout and
\* published_at.
C3_LayoutAndPublishedAtPresent ==
    (fm.returned /\ fm.out.ok) =>
       {"layout", "published_at"} \subseteq DOMAIN fm.out.v

\* C5: for the page whose properties are the title "My Post" and
\* published_at 2021-05-03, the base URL "https://x.io" and the pattern
\* "${baseurl}/${year}/${month}/${title}", build_page_url returns
\* "https://x.io/2021/5/my-post": the base URL of the configuration, the
\* unpadded year and month of published_at and the slug of the title.
C5_ScenarioPermalink ==
    ( /\ url.returned
      /\ pattern = ScenarioPattern
      /\ config["baseurl"] = StrV(XIo)
      /\ page.props = [title |-> StrV(MyPost),
                       published_at |-> MidnightV(2021, 5, 3)] )
       => url.out = Ok("https://x.io/2021/5/my-post")

\* C5, for the pages that have a layout property: the scenario's page with
\* any layout, and any other property but an unset categories, has the
\* permalink of the scenario.
C5_ScenarioPermalinkWithLayout ==
    ( /\ url.returned
      /\ pattern = ScenarioPattern
      /\ config["baseurl"] = StrV(XIo)
      /\ {"layout", "title", "published_at"} \subseteq DOMAIN page.props
      /\ page.props["title"] = StrV(MyPost)
      /\ page.props["published_at"].t \in {"datetime", "NotionDate"}
      /\ ("categories" \in DOMAIN page.props
             => page.props["categories"].t # "None") )
       => url.out = Ok("https://x.io/2021/5/my-post")

\* No key of the mapping m is internal bookkeeping and no value of m is the
\* empty string.
NoInternalsNoEmpty(m) ==
    /\ DOMAIN m \cap Internals = {}
    /\ \A k \in DOMAIN m : ~IsEmptyStr(m[k])

\* C6: the front matter produced for a page, by front_matter and by
\* page_front_matter, has neither of the keys title and published and no
\* value that is the empty string.
C6_NoInternalKeysNoEmptyValues ==
    /\ (fm.returned /\ fm.out.ok) => NoInternalsNoEmpty(fm.out.v)
    /\ pfm.returned => NoInternalsNoEmpty(pfm.out[2])

True == <<"t", "r", "u", "e">>
False == <<"f", "a", "l", "s", "e">>

\* C7: __sanitize_front_matter returns (it has no way to raise) a mapping
\* with the keys it was given, in which a date range has become its start
\* date, a boolean the string "true" or "false", and every other value,
\* the strings and the lists among them, is the value that was given.
C7_SanitizeByType ==
    san.returned =>
       /\ DOMAIN san.out = DOMAIN san.items
       /\ \A k \in DOMAIN san.items :
             LET v == san.items[k]
                 w == san.out[k]
             IN  CASE v.t = "NotionDate" -> w = v.start
                   [] v.t = "bool" ->
                         /\ w.t = "str"
                         /\ w.v = IF v.v THEN True ELSE False
                   [] OTHER -> w = v

\* C7's case: a mapping with a boolean, a date range, a text and an unset
\* value has been sanitized.
C7_Witness ==
    /\ san.returned
    /\ san.items = [title |-> StrV(MyPost), published |-> BoolV(FALSE),
                    published_at |-> NotionDateV(MidnightV(2021, 5, 3),
                                                 MidnightV(2021, 5, 9)),
                    categories |-> NoneV]
    /\ san.out = [title |-> StrV(MyPost), published |-> StrV(False),
                  published_at |-> MidnightV(2021, 5, 3),
                  categories |-> NoneV]


(***************************************************************************)
(* Claims about the link resolution.                                       *)
(***************************************************************************)
\* The ids the page-link modifiers of some modifiers, and of some chunks,
\* name, in the order the loops meet them.
RECURSIVE ModifierLinks(_)
ModifierLinks(mods) ==
    IF mods = <<>> THEN <<>>
    ELSE (IF Head(mods)[1] = "p" THEN <<Head(mods)[2]>> ELSE <<>>)
            \o ModifierLinks(Tail(mods))

RECURSIVE ChunkLinks(_)
ChunkLinks(chunks) ==
    IF chunks = <<>> THEN <<>>
    ELSE (IF Len(Head(chunks)) > 1 THEN ModifierLinks(Head(chunks)[2])
          ELSE <<>>) \o ChunkLinks(Tail(chunks))

\* The page with this id is in another collection than the page converted.
OtherCollection(id) == LinkedPages[id].parent # page.parent

\* C2: when a run of the block links to a page of another collection, the
\* call raises and returns no text, whatever runs come before that link;
\* the error is the ValueError of __get_linked_page unless the URL of a
\* link before it could not be built.
C2_CrossCollectionLinkRaises ==
    (linked.returned /\ linked.arg.t = "list") =>
       LET links == ChunkLinks(linked.arg.v)
       IN  \A k \in 1..Len(links) :
              OtherCollection(links[k]) =>
                 /\ ~linked.out.ok
                 /\ DOMAIN linked.out = {"ok", "err"}
                 /\ (\A h \in 1..(k - 1) :
                        \/ OtherCollection(links[h])
                        \/ linked_page_url(config, LinkedPages[links[h]]).ok)
                       => linked.out.err = "ValueError"

\* C2's case: a run that links to a page of the same collection, then a run
\* that links to a page of another collection: the call has raised.
C2_Witness ==
    /\ linked.returned
    /\ linked.arg = ListV(<<<<"x", <<<<"p", "pg_same">>>>>>,
                            <<"x", <<<<"p", "pg_other">>>>>>>>)
    /\ config["permalink_pattern"] = StrV(ScenarioPattern)
    /\ linked.out = Raise("ValueError")

\* C10: once the front matter of the page has been built or the links of
\* its runs have been resolved, whether that returned or raised, the page's
\* properties and the runs of its block are what they were when the page
\* was fetched.
C10_PageUnchanged ==
    (fm.returned \/ linked.returned) =>
       /\ page.props = fetched.props
       /\ page.chunks = fetched.chunks

(***************************************************************************)
(* Claims about the permalink substitutions.                               *)
(***************************************************************************)
\* The categories entry as stated: the items joined with "/" for a list,
\* the empty string otherwise.
CategoriesAsStated(props) ==
    IF "categories" \in DOMAIN props /\ props["categories"].t = "list"
    THEN StrV(JoinWith(<<"/">>, props["categories"].v))
    ELSE EmptyStr

\* C11: in the substitution mapping of a page, categories is the page's
\* category items joined with "/" when the categories value is a list, and
\* the empty string when categories is absent or is not a list.
C11_CategoriesJoinedOrEmpty ==
    (url.returned /\ url.subs.ok) =>
       url.subs.v["categories"] = CategoriesAsStated(page.props)

(***************************************************************************)
(* Claims about the page-link test.                                        *)
(***************************************************************************)
\* The run has modifiers and the first of them has the page-link tag.
IsPageLinkRun(chunk) == Len(chunk) > 1 /\ chunk[2][1][1] = "p"

\* C12: the test answers true exactly when a run of the block's text has
\* the page-link tag on its first modifier, and for a block whose text is
\* absent or empty it answers the boolean false.
C12_LinkDetectedByFirstModifier ==
    islink.returned =>
       IF islink.arg.t = "None" \/ islink.arg.v = <<>>
       THEN islink.out = BoolV(FALSE)
       ELSE (islink.out = BoolV(TRUE)) <=>
               \E i \in 1..Len(islink.arg.v) : IsPageLinkRun(islink.arg.v[i])

\* What the code does for C12's test: the answer is that of the first run
\* that has modifiers, and there is none when no run has modifiers.
C12_FirstFormattedRunDecides ==
    (islink.returned /\ islink.arg.t = "list" /\ islink.arg.v # <<>>) =>
       LET formatted == {i \in 1..Len(islink.arg.v) : Len(islink.arg.v[i]) > 1}
       IN  IF formatted = {} THEN islink.out = NoneV
           ELSE LET first == CHOOSE i \in formatted :
                                \A h \in formatted : i <= h
                IN  islink.out = BoolV(IsPageLinkRun(islink.arg.v[first]))

(***************************************************************************)
(* templates.py: __numbered_list_index, the filter that numbers a          *)
(* numbered-list block by traversing the children of the page.             *)
(***************************************************************************)
\* The loop of __numbered_list_index(ctx, this) from the i-th child of
\* ctx["page"] on, with its local `index`: the index it returns, or the
\* ValueError it raises after the loop.
RECURSIVE NumberedListIndexFrom(_, _, _, _)
NumberedListIndexFrom(children, this, i, index) ==
    IF i > Len(children) THEN Raise("ValueError")
    ELSE IF children[i].type = "numbered_list"
    THEN IF children[i].id = this.id THEN Ok(index)
         ELSE NumberedListIndexFrom(children, this, i + 1, index + 1)
    ELSE NumberedListIndexFrom(children, this, i + 1, 1)

\* The same loop without its `else: index = 1`.
RECURSIVE NumberedListIndexFrom_NoReset(_, _, _, _)
NumberedListIndexFrom_NoReset(children, this, i, index) ==
    IF i > Len(children) THEN Raise("ValueError")
    ELSE IF children[i].type = "numbered_list"
    THEN IF children[i].id = this.id THEN Ok(index)
         ELSE NumberedListIndexFrom_NoReset(children, this, i + 1, index + 1)
    ELSE NumberedListIndexFrom_NoReset(children, this, i + 1, index)

numbered_list_index_NoReset(children, this) ==
    NumberedListIndexFrom_NoReset(children, this, 1, 1)

\* __numbered_list_index(ctx, this) of templates.py, for a page whose
\* children are `children`.
numbered_list_index(children, this) ==
    NumberedListIndexFrom(children, this, 1, 1)

\* A numbered-list block that is no child of the page.
ForeignBlock == Block("numbered_list", 0)

\* The template filter __numbered_list_index applied to a child of page 1,
\* or to a block of another page, once page2md(page 1) has returned: the
\* children of the page are the blocks page2md iterated.
NumberedListIndex(this) ==
    /\ md[1].returned
    /\ nli = NotReturned
    /\ nli' = [returned |-> TRUE, children |-> seen[1], this |-> this,
               out |-> numbered_list_index(seen[1], this)]
    /\ UNCHANGED <<seen, counter, blocks, md, rb, slugVars, convVars>>

\* One page, compiled by page2md and numbered by the filter.
NextIndex ==
    \/ \E t \in InterleavedTypes : RenderBlock(1, t)
    \/ Return(1)
    \/ \E this \in {seen[1][i] : i \in 1..Len(seen[1])} \cup {ForeignBlock} :
          NumberedListIndex(this)
SpecIndex == InitPage /\ [][NextIndex]_vars


(***************************************************************************)
(* Claims about the two numbering implementations.                         *)
(***************************************************************************)
\* The places of the page at which the block is a numbered-list child.
NumberedPlaces(children, this) ==
    {i \in 1..Len(children) :
        children[i] = this /\ this.type = "numbered_list"}

\* C13: for a numbered-list block of the page, the index the filter
\* __numbered_list_index computes is the counter page2md passed to block2md
\* for that block, and the filter raises exactly when the block is not a
\* numbered-list child of the page.
C13_FilterIndexIsCompilerCounter ==
    nli.returned =>
       LET places == NumberedPlaces(nli.children, nli.this)
       IN  /\ nli.children = seen[1]
           /\ \A i \in places :
                 /\ nli.out.ok
                 /\ blocks[1][i] = block2md(nli.this, nli.out.v)
                 /\ nli.out.v = 1 + RunBefore(seen[1], i)
           /\ ~nli.out.ok <=> places = {}

\* C13's case: in [numbered, numbered, paragraph, numbered] the filter
\* gives the last block the index 1, the number page2md rendered it with.
C13_Witness ==
    /\ nli.returned
    /\ [i \in 1..Len(nli.children) |-> nli.children[i].type]
          = <<"numbered_list", "numbered_list", "text", "numbered_list">>
    /\ nli.this = nli.children[4]
    /\ nli.out = Ok(1)
    /\ blocks[1][4] = "1. t4"

====
